---- MODULE Spec2Model ----
(***************************************************************************)
(* Bazaar inventory: the stock ledger kept by Database (src/database.py)   *)
(* in one SQLite file, and the service (src/api.py) and CLI (src/main.py)  *)
(* handlers that call it.  Every request runs on a connection of its own   *)
(* (api.get_db builds a Database per request, a CLI invocation is one      *)
(* process with one module-level Database), so requests interleave at the  *)
(* statements they execute.  A write statement opens an implicit           *)
(* transaction and takes SQLite's single write lock until commit; a        *)
(* connection that cannot get the lock within the busy timeout raises      *)
(* OperationalError.  Other connections read the committed tables only.    *)
(***************************************************************************)
EXTENDS Integers, Sequences, FiniteSets, TLC

(* ---------------------------- bounds ---------------------------------- *)
MaxMovements == 3
MaxQty == 2

(* --------------------------- vocabulary -------------------------------- *)
Procs == {1, 2}
Skus == {"a", "b"}
(* products.sku is UNIQUE: there are never more products than SKUs *)
MaxProducts == Cardinality(Skus)
(* enough readings of the clock for every row that can be inserted *)
MaxClock == MaxProducts + MaxMovements + 1
STOCK_IN == "stock_in"
SALE == "sale"
MANUAL_REMOVAL == "manual_removal"
MovementType == {STOCK_IN, SALE, MANUAL_REMOVAL}
DefaultStore == 1
(* only the default store is ever populated: requests name store 1 *)
StoreIds == {DefaultStore}
Quantities == 0..MaxQty
ProductIds == 1..MaxProducts
(* Optional[...] arguments: <<>> is None, <<v>> is the value v. *)
FilterProductIds == {<<>>} \cup {<<i>> : i \in 0..MaxProducts}
FilterStoreIds == {<<>>, <<0>>, <<DefaultStore>>}
FilterTypes == {<<>>} \cup {<<t>> : t \in MovementType}

VARIABLES
  products,         \* committed rows of table products, in rowid order
  stock_movements,  \* committed rows of table stock_movements, in rowid order
  stock_levels,     \* committed rows of table stock_levels, in rowid order
  stores,           \* committed rows of table stores (their ids)
  lock,             \* the connection holding SQLite's write lock, 0 if none
  txn,              \* the lock holder's uncommitted rows
  clock,            \* datetime.now()
  pc,               \* each request's position in its handler
  req,              \* each request's arguments
  now,              \* local `now` of add_product / record_stock_movement
  stock,            \* local `stock_level` / `stock` read by the sufficiency check
  lastrowid,        \* cursor.lastrowid of the request's write cursor
  outcome,          \* what the caller is told
  result            \* rows returned to the caller

tables == <<products, stock_movements, stock_levels, stores>>
vars == <<products, stock_movements, stock_levels, stores, lock, txn, clock,
          pc, req, now, stock, lastrowid, outcome, result>>

(* ------------------------- requests ------------------------------------ *)
Request(op, sku, product_id, store_id, quantity, movement_type, fp, fs, ft) ==
  [op |-> op, sku |-> sku, product_id |-> product_id, store_id |-> store_id,
   quantity |-> quantity, movement_type |-> movement_type,
   f_product |-> fp, f_store |-> fs, f_type |-> ft]

NoRequest == Request("none", "a", 0, DefaultStore, 0, STOCK_IN, <<>>, <<>>, <<>>)

ApiOps == {"create_product", "create_stock_movement", "get_stock_level",
           "list_stock_movements"}
CliOps == {"add_product", "stock_in", "sell", "remove", "stock_level",
           "stock_history"}
ProductOps == {"create_product", "add_product"}
MovementOps == {"create_stock_movement", "stock_in", "sell", "remove"}
(* the methods of class Database, called on a Database object directly *)
StoreOps == {"Database.add_product", "Database.record_stock_movement"}
RecordOps == MovementOps \cup {"Database.record_stock_movement"}

(* The requests a caller can send: the service's JSON bodies and query     *)
(* parameters, and the CLI's options (which fix store 1 and the type).     *)
Requests ==
  {Request(op, s, 0, DefaultStore, 0, STOCK_IN, <<>>, <<>>, <<>>) :
      op \in ProductOps, s \in Skus}
  \cup {Request("create_stock_movement", "a", i, st, q, t, <<>>, <<>>, <<>>) :
      i \in ProductIds, st \in StoreIds, q \in Quantities, t \in MovementType}
  \cup {Request("stock_in", "a", i, DefaultStore, q, STOCK_IN, <<>>, <<>>, <<>>) :
      i \in ProductIds, q \in Quantities}
  \cup {Request("sell", "a", i, DefaultStore, q, SALE, <<>>, <<>>, <<>>) :
      i \in ProductIds, q \in Quantities}
  \cup {Request("remove", "a", i, DefaultStore, q, MANUAL_REMOVAL, <<>>, <<>>, <<>>) :
      i \in ProductIds, q \in Quantities}
  \cup {Request("get_stock_level", "a", i, st, 0, STOCK_IN, <<>>, <<>>, <<>>) :
      i \in ProductIds, st \in StoreIds}
  \cup {Request("stock_level", "a", i, DefaultStore, 0, STOCK_IN, <<>>, <<>>, <<>>) :
      i \in ProductIds}
  \cup {Request("list_stock_movements", "a", 0, DefaultStore, 0, STOCK_IN, fp, fs, ft) :
      fp \in FilterProductIds, fs \in FilterStoreIds, ft \in FilterTypes}
  \cup {Request("stock_history", "a", 0, DefaultStore, 0, STOCK_IN, fp, <<>>, ft) :
      fp \in FilterProductIds, ft \in FilterTypes}

(* What a caller holding a Database object passes to its two writing       *)
(* methods: any SKU; movements of either direction and any positive        *)
(* quantity, for the first product id.                                     *)
StoreRequests ==
  {Request("Database.add_product", s, 0, DefaultStore, 0, STOCK_IN, <<>>, <<>>, <<>>) :
      s \in Skus}
  \cup {Request("Database.record_stock_movement", "a", 1, DefaultStore, q, t,
                <<>>, <<>>, <<>>) :
      q \in 1..MaxQty, t \in MovementType}

(* ------------------------- Database reads ------------------------------ *)
Range(s) == {s[i] : i \in DOMAIN s}

(* a lookup that finds a row for any id *)
get_product_any(product_id) ==
  <<[id |-> product_id, sku |-> "a", created_at |-> 0, updated_at |-> 0]>>

get_product(product_id) ==
  SelectSeq(products, LAMBDA row : row.id = product_id)

(* a lookup that never finds the SKU *)
get_product_by_sku_none(sku) == <<>>

get_product_by_sku(sku) ==
  SelectSeq(products, LAMBDA row : row.sku = sku)

(* a SELECT that never finds the pair's row *)
LevelRowsNone(levels, product_id, store_id) == <<>>

LevelRows(levels, product_id, store_id) ==
  SelectSeq(levels, LAMBDA row : row.product_id = product_id /\ row.store_id = store_id)

get_stock_level(product_id, store_id) ==
  LET rows == LevelRows(stock_levels, product_id, store_id)
  IN  IF rows # <<>> THEN rows[1]
      ELSE [product_id |-> product_id, store_id |-> store_id, quantity |-> 0]

(* Python truthiness of an Optional[int] argument: None and 0 are false. *)
TruthyInt(opt) == opt # <<>> /\ opt[1] # 0
(* ... and of an Optional[MovementType]: every member is a non-empty str. *)
TruthyType(opt) == opt # <<>>

RECURSIVE InsertByCreatedAtDesc(_, _)
InsertByCreatedAtDesc(sorted, row) ==
  IF sorted = <<>> THEN <<row>>
  ELSE IF row.created_at > sorted[1].created_at THEN <<row>> \o sorted
  ELSE <<sorted[1]>> \o InsertByCreatedAtDesc(Tail(sorted), row)

RECURSIVE OrderByCreatedAtDesc(_)
OrderByCreatedAtDesc(rows) ==
  IF rows = <<>> THEN <<>>
  ELSE InsertByCreatedAtDesc(OrderByCreatedAtDesc(SubSeq(rows, 1, Len(rows) - 1)),
                             rows[Len(rows)])

get_stock_movements(product_id, store_id, movement_type) ==
  OrderByCreatedAtDesc(
    SelectSeq(stock_movements, LAMBDA row :
      /\ (TruthyInt(product_id) => row.product_id = product_id[1])
      /\ (TruthyInt(store_id) => row.store_id = store_id[1])
      /\ (TruthyType(movement_type) => row.movement_type = movement_type[1])))

(* response_model validation of the service: every declared field is required *)
StockLevelResponse(d) ==
  IF {"product_id", "store_id", "quantity", "last_updated"} \subseteq DOMAIN d
  THEN <<d>> ELSE <<>>

(* ------------------------- initial state ------------------------------- *)
NoTxn == [products |-> <<>>, stock_movements |-> <<>>, stock_levels |-> <<>>]

Init ==
  /\ products = <<>>
  /\ stock_movements = <<>>
  /\ stock_levels = <<>>
  /\ stores = <<>>
  /\ lock = 0
  /\ txn = NoTxn
  /\ clock = 1
  /\ pc = [p \in Procs |-> "idle"]
  /\ req = [p \in Procs |-> NoRequest]
  /\ now = [p \in Procs |-> 0]
  /\ stock = [p \in Procs |-> 0]
  /\ lastrowid = [p \in Procs |-> 0]
  /\ outcome = [p \in Procs |-> "none"]
  /\ result = [p \in Procs |-> <<>>]

(* ------------------------- handler plumbing ---------------------------- *)
Goto(p, label) ==
  /\ pc' = [pc EXCEPT ![p] = label]
  /\ UNCHANGED <<outcome, result>>

(* a handler that has its answer but never returns it *)
FinishNever(p, out, rows) ==
  /\ pc' = pc
  /\ outcome' = [outcome EXCEPT ![p] = out]
  /\ result' = [result EXCEPT ![p] = rows]

Finish(p, out, rows) ==
  /\ pc' = [pc EXCEPT ![p] = "done"]
  /\ outcome' = [outcome EXCEPT ![p] = out]
  /\ result' = [result EXCEPT ![p] = rows]

(* An exception no handler names: the service answers 500; the CLI prints   *)
(* the exception (its try/except echoes str(e), the import-time Database()  *)
(* ends in a traceback).                                                    *)
Uncaught(op, exc) == IF op \in ApiOps THEN "InternalError" ELSE exc

(* What connection p's statements see: its own uncommitted changes while   *)
(* its transaction is open, the committed tables otherwise.                *)
View(p) ==
  IF lock = p THEN txn
  ELSE [products |-> products, stock_movements |-> stock_movements,
        stock_levels |-> stock_levels]

InFlight(ops) == Cardinality({p \in Procs : pc[p] \notin {"idle", "done"} /\ req[p].op \in ops})

(* ------------------------- Database.__init__ --------------------------- *)
(* initialize_db: CREATE TABLE IF NOT EXISTS ..., INSERT OR IGNORE the      *)
(* default store, commit.  The INSERT is a write statement: it needs the    *)
(* write lock whether or not the row is already there.                      *)
initialize_db(rows) ==
  IF \E i \in DOMAIN rows : rows[i] = DefaultStore THEN rows ELSE Append(rows, DefaultStore)

FirstStep(r) ==
  CASE r.op = "create_product" -> "get_product_by_sku"
    [] r.op \in {"add_product", "Database.add_product"} -> "add_product"
    [] r.op = "Database.record_stock_movement" -> "record_stock_movement"
    [] r.op \in MovementOps -> "get_product"
    [] r.op = "get_stock_level" -> "get_stock_level_endpoint"
    [] OTHER -> r.op

Connect(p, r) ==
  /\ pc[p] = "idle"
  /\ lock = 0
  /\ r.op \in RecordOps => Len(stock_movements) + InFlight(RecordOps) < MaxMovements
  /\ stores' = initialize_db(stores)
  /\ req' = [req EXCEPT ![p] = r]
  /\ IF r.op \in {"stock_in", "sell", "remove"} /\ r.quantity <= 0
     THEN Finish(p, "InvalidQuantity", <<>>)
     ELSE Goto(p, FirstStep(r))
  /\ UNCHANGED <<products, stock_movements, stock_levels, lock, txn, clock,
                 now, stock, lastrowid>>

(* A caller that keeps its Database object calls another method on it while *)
(* the connection's transaction is still open (an earlier call raised       *)
(* before its commit): no new connection, no initialize_db.                 *)
Reuse(p, r) ==
  /\ pc[p] = "idle"
  /\ lock = p
  /\ r.op \in RecordOps => Len(txn.stock_movements) < MaxMovements
  /\ req' = [req EXCEPT ![p] = r]
  /\ Goto(p, FirstStep(r))
  /\ UNCHANGED <<tables, lock, txn, clock, now, stock, lastrowid>>

ConnectBusy(p, r) ==
  /\ pc[p] = "idle"
  /\ lock # 0
  /\ req' = [req EXCEPT ![p] = r]
  /\ Finish(p, Uncaught(r.op, "OperationalError"), <<>>)
  /\ UNCHANGED <<tables, lock, txn, clock, now, stock, lastrowid>>

(* ------------------------- create product ------------------------------ *)
CheckSku(p) ==
  /\ pc[p] = "get_product_by_sku"
  /\ IF get_product_by_sku(req[p].sku) # <<>>
     THEN Finish(p, "DuplicateSKU", <<>>)
     ELSE Goto(p, "add_product")
  /\ UNCHANGED <<tables, lock, txn, clock, req, now, stock, lastrowid>>

(* datetime.now().isoformat(): successive readings are distinct and grow,   *)
(* so ORDER BY created_at never meets a tie.                               *)
ReadNow(p, label, next) ==
  /\ pc[p] = label
  /\ clock < MaxClock
  /\ now' = [now EXCEPT ![p] = clock]
  /\ clock' = clock + 1
  /\ Goto(p, next)
  /\ UNCHANGED <<tables, lock, txn, req, stock, lastrowid>>

AddProductNow(p) == ReadNow(p, "add_product", "insert_product")

(* product.name and product.description arrive with the SKU; each SKU is   *)
(* sent with one name and one description of its own.                      *)
ProductName(sku) == <<"name", sku>>
ProductDescription(sku) == <<"description", sku>>

ProductRow(p) ==
  [id |-> Len(View(p).products) + 1, sku |-> req[p].sku,
   name |-> ProductName(req[p].sku),
   description |-> ProductDescription(req[p].sku),
   created_at |-> now[p], updated_at |-> now[p]]

(* products.sku is declared UNIQUE.  A refused INSERT leaves the implicit   *)
(* transaction open, but the exception ends the handler and the connection *)
(* is closed (get_db) or the process exits (CLI), which rolls it back: the *)
(* refusal and the release of the lock are one step here.                  *)
sku_unique_violated(rows, sku) == \E i \in DOMAIN rows : rows[i].sku = sku

InsertProduct(p) ==
  /\ pc[p] = "insert_product"
  /\ lock \in {0, p}
  /\ IF sku_unique_violated(View(p).products, req[p].sku)
     THEN /\ Finish(p, Uncaught(req[p].op, "IntegrityError"), <<>>)
          /\ UNCHANGED <<lock, txn, lastrowid>>
     ELSE /\ lock' = p
          /\ txn' = [View(p) EXCEPT !.products = Append(@, ProductRow(p))]
          /\ lastrowid' = [lastrowid EXCEPT ![p] = Len(View(p).products) + 1]
          /\ Goto(p, "commit_product")
  /\ UNCHANGED <<tables, clock, req, now, stock>>

InsertBusy(p) ==
  /\ pc[p] \in {"insert_product", "insert_movement"}
  /\ lock \notin {0, p}
  /\ Finish(p, Uncaught(req[p].op, "OperationalError"), <<>>)
  /\ UNCHANGED <<tables, lock, txn, clock, req, now, stock, lastrowid>>

(* a commit that also refreshes updated_at of every product *)
commit_touching(p) ==
  /\ lock = p
  /\ products' = [i \in DOMAIN txn.products |->
                    [txn.products[i] EXCEPT !.updated_at = now[p]]]
  /\ stock_movements' = txn.stock_movements
  /\ stock_levels' = txn.stock_levels
  /\ lock' = 0
  /\ txn' = NoTxn
  /\ UNCHANGED <<stores, clock, req, now, stock, lastrowid>>

commit(p) ==
  /\ lock = p
  /\ products' = txn.products
  /\ stock_movements' = txn.stock_movements
  /\ stock_levels' = txn.stock_levels
  /\ lock' = 0
  /\ txn' = NoTxn
  /\ UNCHANGED <<stores, clock, req, now, stock, lastrowid>>

CommitProduct(p) ==
  /\ pc[p] = "commit_product"
  /\ commit(p)
  /\ IF req[p].op = "create_product"
     THEN Goto(p, "return_product")
     ELSE Finish(p, "ok", <<>>)

ReturnProduct(p) ==
  /\ pc[p] = "return_product"
  /\ Finish(p, "ok", get_product(lastrowid[p]))
  /\ UNCHANGED <<tables, lock, txn, clock, req, now, stock, lastrowid>>

(* ------------------------- record a movement --------------------------- *)
Removal(r) == r.movement_type \in {SALE, MANUAL_REMOVAL}

GetProduct(p) ==
  /\ pc[p] = "get_product"
  /\ IF get_product(req[p].product_id) = <<>>
     THEN Finish(p, "ProductNotFound", <<>>)
     ELSE IF Removal(req[p]) THEN Goto(p, "get_stock_level")
     ELSE Goto(p, "record_stock_movement")
  /\ UNCHANGED <<tables, lock, txn, clock, req, now, stock, lastrowid>>

(* an off-by-one sufficiency check *)
InsufficientOrEqual(stock_level, quantity) == stock_level.quantity <= quantity

(* the sufficiency check of the adapters *)
Insufficient(stock_level, quantity) == stock_level.quantity < quantity

CheckStock(p) ==
  /\ pc[p] = "get_stock_level"
  /\ LET stock_level == get_stock_level(req[p].product_id, req[p].store_id)
     IN  /\ stock' = [stock EXCEPT ![p] = stock_level.quantity]
         /\ IF Insufficient(stock_level, req[p].quantity)
            THEN Finish(p, "InsufficientStock", <<>>)
            ELSE Goto(p, "record_stock_movement")
  /\ UNCHANGED <<tables, lock, txn, clock, req, now, lastrowid>>

RecordNow(p) == ReadNow(p, "record_stock_movement", "insert_movement")

(* a row that takes the id of the newest row instead of a fresh one *)
MovementRowSameId(p) ==
  [id |-> IF View(p).stock_movements = <<>> THEN 1 ELSE Len(View(p).stock_movements),
   product_id |-> req[p].product_id,
   store_id |-> req[p].store_id, quantity |-> req[p].quantity,
   movement_type |-> req[p].movement_type, created_at |-> now[p]]

MovementRow(p) ==
  [id |-> Len(View(p).stock_movements) + 1, product_id |-> req[p].product_id,
   store_id |-> req[p].store_id, quantity |-> req[p].quantity,
   movement_type |-> req[p].movement_type, created_at |-> now[p]]

InsertMovement(p) ==
  /\ pc[p] = "insert_movement"
  /\ lock \in {0, p}
  /\ lock' = p
  /\ txn' = [View(p) EXCEPT !.stock_movements = Append(@, MovementRow(p))]
  /\ lastrowid' = [lastrowid EXCEPT ![p] = Len(View(p).stock_movements) + 1]
  /\ Goto(p, "upsert_stock_level")
  /\ UNCHANGED <<tables, clock, req, now, stock>>

quantity_change(movement) ==
  IF movement.movement_type \in {SALE, MANUAL_REMOVAL}
  THEN -movement.quantity ELSE movement.quantity

(* a lost update: the row is set to the change instead of increased by it *)
UpdateLevelOverwrite(levels, movement, at) ==
  [i \in DOMAIN levels |->
     IF levels[i].product_id = movement.product_id /\ levels[i].store_id = movement.store_id
     THEN [levels[i] EXCEPT !.quantity = quantity_change(movement),
                            !.last_updated = at]
     ELSE levels[i]]

(* an UPDATE without its WHERE clause: every row takes the change *)
UpdateLevelAll(levels, movement, at) ==
  [i \in DOMAIN levels |->
     [levels[i] EXCEPT !.quantity = @ + quantity_change(movement),
                       !.last_updated = at]]

UpdateLevel(levels, movement, at) ==
  [i \in DOMAIN levels |->
     IF levels[i].product_id = movement.product_id /\ levels[i].store_id = movement.store_id
     THEN [levels[i] EXCEPT !.quantity = @ + quantity_change(movement),
                            !.last_updated = at]
     ELSE levels[i]]

InsertLevel(levels, movement, at) ==
  Append(levels, [product_id |-> movement.product_id, store_id |-> movement.store_id,
                  quantity |-> quantity_change(movement), last_updated |-> at])

(* A statement after the movement INSERT raises (sqlite3.OperationalError:  *)
(* disk I/O error, database or disk is full).  record_stock_movement has   *)
(* no try/except and no rollback: the exception leaves the method with the *)
(* connection's transaction open.  Modelled for a caller that keeps the    *)
(* Database object; the service closes its connection (get_db) and a CLI   *)
(* run exits, which discards the transaction.                              *)
StorageError(p) ==
  /\ pc[p] = "upsert_stock_level"
  /\ lock = p
  /\ req[p].op \in StoreOps
  /\ Finish(p, "StorageError", <<>>)
  /\ UNCHANGED <<tables, lock, txn, clock, req, now, stock, lastrowid>>

UpsertStockLevel(p) ==
  /\ pc[p] = "upsert_stock_level"
  /\ lock = p
  /\ IF LevelRows(txn.stock_levels, req[p].product_id, req[p].store_id) # <<>>
     THEN /\ txn' = [txn EXCEPT !.stock_levels = UpdateLevel(@, req[p], now[p])]
          /\ UNCHANGED lastrowid
     ELSE /\ txn' = [txn EXCEPT !.stock_levels = InsertLevel(@, req[p], now[p])]
          /\ lastrowid' = [lastrowid EXCEPT ![p] = Len(txn.stock_levels) + 1]
  /\ Goto(p, "commit_movement")
  /\ UNCHANGED <<tables, lock, clock, req, now, stock>>

CommitMovement(p) ==
  /\ pc[p] = "commit_movement"
  /\ commit(p)
  /\ IF req[p].op = "create_stock_movement"
     THEN Goto(p, "find_movement")
     ELSE IF req[p].op \in StoreOps
     THEN Finish(p, "ok", <<[id |-> lastrowid[p]]>>)
     ELSE Goto(p, "echo_stock")

(* the service looks the movement up by the id record_stock_movement returned *)
FindMovement(p) ==
  /\ pc[p] = "find_movement"
  /\ LET all_movements == get_stock_movements(<<req[p].product_id>>, <<>>, <<>>)
         found == SelectSeq(all_movements, LAMBDA m : m.id = lastrowid[p])
     IN  IF found # <<>> THEN Finish(p, "ok", <<found[1]>>)
         ELSE Finish(p, "InternalError", <<>>)
  /\ UNCHANGED <<tables, lock, txn, clock, req, now, stock, lastrowid>>

(* the CLI reads the stock level back for its message *)
EchoStock(p) ==
  /\ pc[p] = "echo_stock"
  /\ stock' = [stock EXCEPT ![p] = get_stock_level(req[p].product_id, DefaultStore).quantity]
  /\ Finish(p, "ok", <<>>)
  /\ UNCHANGED <<tables, lock, txn, clock, req, now, lastrowid>>

(* ------------------------- read-only requests -------------------------- *)
GetStockLevel(p) ==
  /\ pc[p] = "get_stock_level_endpoint"
  /\ IF get_product(req[p].product_id) = <<>>
     THEN Finish(p, "ProductNotFound", <<>>)
     ELSE LET body == StockLevelResponse(get_stock_level(req[p].product_id, req[p].store_id))
          IN  IF body # <<>> THEN Finish(p, "ok", body)
              ELSE Finish(p, "InternalError", <<>>)
  /\ UNCHANGED <<tables, lock, txn, clock, req, now, stock, lastrowid>>

StockLevelCommand(p) ==
  /\ pc[p] = "stock_level"
  /\ IF get_product(req[p].product_id) = <<>>
     THEN Finish(p, "ProductNotFound", <<>>)
     ELSE Finish(p, "ok", <<get_stock_level(req[p].product_id, DefaultStore)>>)
  /\ UNCHANGED <<tables, lock, txn, clock, req, now, stock, lastrowid>>

ListStockMovements(p) ==
  /\ pc[p] = "list_stock_movements"
  /\ Finish(p, "ok", get_stock_movements(req[p].f_product, req[p].f_store, req[p].f_type))
  /\ UNCHANGED <<tables, lock, txn, clock, req, now, stock, lastrowid>>

StockHistory(p) ==
  /\ pc[p] = "stock_history"
  /\ Finish(p, "ok", get_stock_movements(req[p].f_product, <<>>, req[p].f_type))
  /\ UNCHANGED <<tables, lock, txn, clock, req, now, stock, lastrowid>>

(* the handler returns: the connection is closed, its locals are gone *)
Return(p) ==
  /\ pc[p] = "done"
  /\ pc' = [pc EXCEPT ![p] = "idle"]
  /\ req' = [req EXCEPT ![p] = NoRequest]
  /\ now' = [now EXCEPT ![p] = 0]
  /\ stock' = [stock EXCEPT ![p] = 0]
  /\ lastrowid' = [lastrowid EXCEPT ![p] = 0]
  /\ outcome' = [outcome EXCEPT ![p] = "none"]
  /\ result' = [result EXCEPT ![p] = <<>>]
  /\ UNCHANGED <<tables, lock, txn, clock>>

(* ------------------------- specifications ------------------------------ *)
WriteStep(p) ==
  \/ CheckSku(p)
  \/ AddProductNow(p)
  \/ InsertProduct(p)
  \/ CommitProduct(p)
  \/ ReturnProduct(p)
  \/ GetProduct(p)
  \/ CheckStock(p)
  \/ RecordNow(p)
  \/ InsertMovement(p)
  \/ UpsertStockLevel(p)
  \/ CommitMovement(p)
  \/ FindMovement(p)
  \/ EchoStock(p)

ReadStep(p) ==
  \/ GetStockLevel(p)
  \/ StockLevelCommand(p)
  \/ ListStockMovements(p)
  \/ StockHistory(p)

(* Two clients at once, each creating products and sending unit stock-ins   *)
(* and sales, through the service or the CLI: every interleaving of their   *)
(* statements.                                                              *)
ConcurrentRequests ==
  {r \in Requests :
     \/ r.op \in ProductOps
     \/ r.op \in {"create_stock_movement", "stock_in", "sell"} /\ r.quantity = 1
          /\ r.movement_type \in {STOCK_IN, SALE}}

Next ==
  \E p \in Procs :
    \/ \E r \in ConcurrentRequests : Connect(p, r)
    \/ \E r \in ConcurrentRequests : ConnectBusy(p, r)
    \/ WriteStep(p)
    \/ InsertBusy(p)
    \/ Return(p)

Spec == Init /\ [][Next]_vars

(* One client, one request at a time: any request of either adapter. *)
SeqProcs == {1}

SeqNext ==
  \E p \in SeqProcs :
    \/ \E r \in Requests : Connect(p, r)
    \/ WriteStep(p)
    \/ ReadStep(p)
    \/ Return(p)

SeqSpec == Init /\ [][SeqNext]_vars

(* One caller holding a Database object and calling its writing methods    *)
(* directly, with no adapter in front; a statement of record_stock_movement *)
(* may raise after the movement INSERT.                                     *)
StoreNext ==
  \E p \in SeqProcs :
    \/ \E r \in StoreRequests : Connect(p, r)
    \/ \E r \in StoreRequests : Reuse(p, r)
    \/ AddProductNow(p)
    \/ InsertProduct(p)
    \/ CommitProduct(p)
    \/ RecordNow(p)
    \/ InsertMovement(p)
    \/ StorageError(p)
    \/ UpsertStockLevel(p)
    \/ CommitMovement(p)
    \/ Return(p)

StoreSpec == Init /\ [][StoreNext]_vars

(* Two clients under a fair scheduler: every handler that can take a step   *)
(* eventually takes one (a thread of the service or a CLI process keeps    *)
(* running; a wait for the write lock ends with the lock or, after the     *)
(* busy timeout, with "database is locked").  Clients need not send        *)
(* requests.  A request starts only while a clock reading is left for it.  *)
LiveRequests ==
  {Request("create_product", "a", 0, DefaultStore, 0, STOCK_IN, <<>>, <<>>, <<>>),
   Request("stock_in", "a", 1, DefaultStore, 1, STOCK_IN, <<>>, <<>>, <<>>),
   Request("create_stock_movement", "a", 1, DefaultStore, 1, SALE, <<>>, <<>>, <<>>),
   Request("get_stock_level", "a", 1, DefaultStore, 0, STOCK_IN, <<>>, <<>>, <<>>),
   Request("list_stock_movements", "a", 0, DefaultStore, 0, STOCK_IN, <<>>, <<>>, <<>>)}

LiveConnect(p, r) ==
  /\ clock + InFlight(ProductOps \cup MovementOps) < MaxClock
  /\ Connect(p, r)

Handler(p) ==
  \/ WriteStep(p)
  \/ GetStockLevel(p)
  \/ ListStockMovements(p)
  \/ InsertBusy(p)

LiveNext ==
  \E p \in Procs :
    \/ \E r \in LiveRequests : LiveConnect(p, r)
    \/ \E r \in LiveRequests : ConnectBusy(p, r)
    \/ WriteStep(p)
    \/ GetStockLevel(p)
    \/ ListStockMovements(p)
    \/ InsertBusy(p)
    \/ Return(p)

LiveSpec == Init /\ [][LiveNext]_vars /\ \A p \in Procs : WF_vars(Handler(p))

(* ========================= properties ================================== *)
Pairs == ProductIds \X StoreIds

(* what the ledger says a row contributes: +quantity in, -quantity out *)
Contribution(row) ==
  IF row.movement_type = STOCK_IN THEN row.quantity ELSE -row.quantity

RECURSIVE SignedSum(_, _, _)
SignedSum(rows, product_id, store_id) ==
  IF rows = <<>> THEN 0
  ELSE (IF rows[1].product_id = product_id /\ rows[1].store_id = store_id
        THEN Contribution(rows[1]) ELSE 0)
       + SignedSum(Tail(rows), product_id, store_id)

Quantity(product_id, store_id) == get_stock_level(product_id, store_id).quantity

(* C1: in every committed state, under every interleaving of concurrent    *)
(* writers, the stock level of each (product, store) pair (0 if it has no  *)
(* row) is the signed sum of the pair's stock_movements rows.              *)
C1_LedgerInvariant ==
  \A pr \in Pairs :
    Quantity(pr[1], pr[2]) = SignedSum(stock_movements, pr[1], pr[2])

(* two writers on one product: one inside its transaction, the other       *)
(* waiting for the write lock, after an earlier committed movement         *)
C1_Witness ==
  /\ lock = 1
  /\ pc[1] = "commit_movement"
  /\ pc[2] = "insert_movement"
  /\ req[1].product_id = req[2].product_id
  /\ \E i \in DOMAIN stock_movements :
       stock_movements[i].product_id = req[1].product_id

UnitSale(r) ==
  r.op = "create_stock_movement" /\ r.movement_type = SALE /\ r.quantity = 1

LockTimeout(p) == outcome[p] = Uncaught(req[p].op, "OperationalError")

(* C2: two unit sales sent to the service at once for a product with one   *)
(* unit in stock (each read the level as 1; neither timed out on the       *)
(* write lock): exactly one succeeds, the other fails with                 *)
(* InsufficientStock, and the stock level ends at 0.                       *)
C2_ConcurrentRace ==
  \A p, q \in Procs :
    ( /\ p # q
      /\ pc[p] = "done" /\ pc[q] = "done"
      /\ UnitSale(req[p]) /\ UnitSale(req[q])
      /\ req[p].product_id = req[q].product_id
      /\ req[p].store_id = req[q].store_id
      /\ stock[p] = 1 /\ stock[q] = 1
      /\ ~LockTimeout(p) /\ ~LockTimeout(q) )
    => /\ {outcome[p], outcome[q]} = {"ok", "InsufficientStock"}
       /\ Quantity(req[p].product_id, req[p].store_id) = 0

(* C3: no stock level is ever negative. *)
C3_StockNeverNegative ==
  \A i \in DOMAIN stock_levels : stock_levels[i].quantity >= 0

Stepped(p) == pc'[p] # pc[p]

ProductExists(product_id) == \E i \in DOMAIN products : products[i].id = product_id

(* C4: with one request at a time, a SALE or MANUAL_REMOVAL of quantity    *)
(* q >= 1 for a product with stock level n: if q > n it fails with         *)
(* InsufficientStock and changes no table (the level is still n); if       *)
(* q <= n it goes on to be recorded and succeeds, and with q = n the       *)
(* commit appends exactly its movement and leaves the level at 0.          *)
C4_InsufficiencyGate ==
  /\ [][\A p \in Procs :
          (pc[p] = "get_stock_level" /\ Stepped(p)) =>
            LET n == Quantity(req[p].product_id, req[p].store_id)
                q == req[p].quantity
            IN  /\ q > n => /\ pc'[p] = "done"
                            /\ outcome'[p] = "InsufficientStock"
                            /\ UNCHANGED tables
                /\ q <= n => pc'[p] = "record_stock_movement"]_vars
  /\ [][\A p \in Procs :
          ( /\ pc[p] = "commit_movement" /\ Stepped(p) /\ Removal(req[p])
            /\ req[p].quantity = Quantity(req[p].product_id, req[p].store_id) )
          => /\ Quantity(req[p].product_id, req[p].store_id)' = 0
             /\ Len(stock_movements') = Len(stock_movements) + 1
             /\ SubSeq(stock_movements', 1, Len(stock_movements)) = stock_movements
             /\ LET m == stock_movements'[Len(stock_movements')]
                IN  /\ m.product_id = req[p].product_id
                    /\ m.store_id = req[p].store_id
                    /\ m.quantity = req[p].quantity
                    /\ m.movement_type = req[p].movement_type]_vars
  /\ [](\A p \in Procs :
          ( /\ pc[p] = "done" /\ req[p].op \in MovementOps /\ Removal(req[p])
            /\ req[p].quantity >= 1 )
          => /\ outcome[p] \in {"ok", "InsufficientStock", "ProductNotFound"}
             /\ outcome[p] = "ProductNotFound" => ~ProductExists(req[p].product_id)
             /\ outcome[p] = "InsufficientStock" =>
                  /\ stock[p] < req[p].quantity
                  /\ Quantity(req[p].product_id, req[p].store_id) = stock[p])

(* a SALE or MANUAL_REMOVAL of the whole stock has succeeded *)
C4_Witness ==
  \E p \in Procs :
    /\ pc[p] = "done" /\ Removal(req[p]) /\ outcome[p] = "ok"
    /\ req[p].quantity >= 1
    /\ Quantity(req[p].product_id, req[p].store_id) = 0

(* C5: a movement request with quantity <= 0 for an existing product fails *)
(* with InvalidQuantity, and every stock_movements row has quantity > 0.   *)
C5_PositiveQuantity ==
  /\ \A i \in DOMAIN stock_movements : stock_movements[i].quantity > 0
  /\ \A p \in Procs :
       ( /\ pc[p] = "done" /\ req[p].op \in MovementOps
         /\ req[p].quantity <= 0 /\ ProductExists(req[p].product_id) )
       => outcome[p] = "InvalidQuantity"

(* C6: when record_stock_movement has returned, the id it returned is the  *)
(* id of the stock_movements row it inserted.                              *)
C6_ReturnedIdIsMovementId ==
  \A p \in Procs :
    pc[p] \in {"find_movement", "echo_stock"} =>
      \E i \in DOMAIN stock_movements :
        /\ stock_movements[i].created_at = now[p]
        /\ stock_movements[i].id = lastrowid[p]

SkuExists(sku) == \E i \in DOMAIN products : products[i].sku = sku

HasMovements(product_id, store_id) ==
  \E i \in DOMAIN stock_movements :
    stock_movements[i].product_id = product_id /\ stock_movements[i].store_id = store_id

(* C8: reading the stock level of an existing product that has no          *)
(* movements succeeds with quantity 0, through the service endpoint and    *)
(* the CLI alike.                                                          *)
C8_ZeroStateRead ==
  \A p \in Procs :
    ( /\ pc[p] = "done" /\ req[p].op \in {"get_stock_level", "stock_level"}
      /\ ProductExists(req[p].product_id)
      /\ ~HasMovements(req[p].product_id, req[p].store_id) )
    => /\ outcome[p] = "ok"
       /\ Len(result[p]) = 1
       /\ result[p][1].quantity = 0

(* C9: every stock_movements and stock_levels row references an existing   *)
(* product; a movement request whose product lookup finds nothing fails    *)
(* with ProductNotFound and changes no table.                              *)
C9_ReferentialIntegrity ==
  /\ [](/\ \A i \in DOMAIN stock_movements : ProductExists(stock_movements[i].product_id)
        /\ \A i \in DOMAIN stock_levels : ProductExists(stock_levels[i].product_id))
  /\ [][\A p \in Procs :
          (pc[p] = "get_product" /\ Stepped(p) /\ ~ProductExists(req[p].product_id)) =>
            /\ pc'[p] = "done"
            /\ outcome'[p] = "ProductNotFound"
            /\ UNCHANGED <<tables, lock, txn>>]_vars

(* a movement for an unknown product has been refused while another        *)
(* product has movements                                                   *)
C9_Witness ==
  \E p \in Procs :
    /\ pc[p] = "done" /\ req[p].op \in MovementOps
    /\ outcome[p] = "ProductNotFound"
    /\ ~ProductExists(req[p].product_id)
    /\ stock_movements # <<>>

Matches(row, fp, fs, ft) ==
  /\ fp # <<>> => row.product_id = fp[1]
  /\ fs # <<>> => row.store_id = fs[1]
  /\ ft # <<>> => row.movement_type = ft[1]

(* C10: a movement listing returns exactly the recorded movements that     *)
(* match every filter supplied, each once, newest created_at first.        *)
C10_FilterCorrectness ==
  \A p \in Procs :
    (pc[p] = "done" /\ req[p].op \in {"list_stock_movements", "stock_history"}) =>
      /\ Range(result[p]) =
           {row \in Range(stock_movements) :
              Matches(row, req[p].f_product, req[p].f_store, req[p].f_type)}
      /\ Cardinality(Range(result[p])) = Len(result[p])
      /\ \A i, j \in DOMAIN result[p] :
           i < j => result[p][i].created_at >= result[p][j].created_at

(* C11: Database.record_stock_movement, called directly with no adapter    *)
(* in front, rejects a SALE or MANUAL_REMOVAL whose quantity exceeds the   *)
(* current stock level: a removal of an existing product that it is about  *)
(* to commit (it holds the write lock, so the committed level is the       *)
(* current one) never exceeds that level.                                  *)
C11_StoreRejectsOversell ==
  \A p \in Procs :
    ( /\ pc[p] = "commit_movement" /\ req[p].op \in StoreOps /\ Removal(req[p])
      /\ ProductExists(req[p].product_id) )
    => req[p].quantity <= Quantity(req[p].product_id, req[p].store_id)

(* every step out of "idle" is a new connection running initialize_db *)
Connected(p) == pc[p] = "idle" /\ Stepped(p)

(* C12: running initialize_db on a new connection, any number of times     *)
(* and whatever the store already holds, leaves exactly one stores row     *)
(* (id 1), leaves products, stock_movements and stock_levels unchanged,    *)
(* and raises no error.                                                    *)
C12_IdempotentInit ==
  [][\A p \in Procs :
       Connected(p) =>
         /\ stores' = <<DefaultStore>>
         /\ UNCHANGED <<products, stock_movements, stock_levels>>
         /\ ~LockTimeout(p)']_vars

(* What initialize_db does guarantee: the same, except that its INSERT OR   *)
(* IGNORE is a write statement, so it raises "database is locked" when     *)
(* another connection keeps its write transaction open past the busy       *)
(* timeout; with no such transaction open it raises nothing.               *)
IdempotentInitUnlessLocked ==
  [][\A p \in Procs :
       Connected(p) =>
         /\ stores' = <<DefaultStore>>
         /\ UNCHANGED <<products, stock_movements, stock_levels>>
         /\ LockTimeout(p)' <=> lock # 0]_vars

(* C13: movement ids are assigned in strictly increasing order, and no     *)
(* step modifies or deletes a stock_movements row: each step leaves the    *)
(* existing rows as they are and at most appends new ones.                 *)
C13_AppendOnly ==
  /\ [](\A i, j \in DOMAIN stock_movements :
          i < j => stock_movements[i].id < stock_movements[j].id)
  /\ [][/\ Len(stock_movements') >= Len(stock_movements)
        /\ SubSeq(stock_movements', 1, Len(stock_movements)) = stock_movements]_vars

(* the log is full and holds movements of both products *)
C13_Witness ==
  /\ Len(stock_movements) = MaxMovements
  /\ Len(products) = MaxProducts
  /\ \E i \in DOMAIN stock_movements :
       stock_movements[i].product_id # stock_movements[1].product_id

HasLevel(product_id, store_id) ==
  \E j \in DOMAIN stock_levels :
    stock_levels[j].product_id = product_id /\ stock_levels[j].store_id = store_id

(* C14: a record_stock_movement that fails part-way leaves nothing behind, *)
(* also for later calls on the same connection that commit: no committed   *)
(* state holds a movement whose pair has no stock level, or a stock level  *)
(* whose pair has no movement.                                             *)
C14_AllOrNothing ==
  /\ \A i \in DOMAIN stock_movements :
       HasLevel(stock_movements[i].product_id, stock_movements[i].store_id)
  /\ \A j \in DOMAIN stock_levels :
       HasMovements(stock_levels[j].product_id, stock_levels[j].store_id)

(* this step ends p's request with "database is locked": its connection's  *)
(* initialize_db or its INSERT waited out the busy timeout                 *)
RefusedByLock(p) ==
  /\ pc[p] \in {"idle", "insert_product", "insert_movement"}
  /\ pc'[p] = "done"
  /\ lock # 0
  /\ outcome'[p] = Uncaught(req'[p].op, "OperationalError")

(* C15: movements of different products do not contend: a movement request *)
(* for an existing product is never refused by the write lock while the    *)
(* lock is held by a movement of a different product.                      *)
C15_NoCrossProductContention ==
  [][\A p, q \in Procs :
       ( /\ RefusedByLock(p) /\ req'[p].op \in MovementOps
         /\ ProductExists(req'[p].product_id)
         /\ lock = q /\ req[q].op \in MovementOps )
       => req[q].product_id = req'[p].product_id]_vars

(* C16: under fair scheduling every started request (product creation,    *)
(* movement, query) of either client eventually returns a result or an     *)
(* error.                                                                  *)
C16_NoIndefiniteBlocking ==
  \A p \in Procs : (pc[p] \notin {"idle", "done"}) ~> (pc[p] = "done")

(* a writer is inside its transaction while the other client's product     *)
(* INSERT waits for the write lock                                         *)
C16_Witness ==
  /\ lock = 1
  /\ pc[1] = "upsert_stock_level"
  /\ pc[2] = "insert_product"

SamePair(a, b) == a.product_id = b.product_id /\ a.store_id = b.store_id

(* C17: there is at most one stock_levels row per (product_id, store_id);  *)
(* a pair has a row exactly when it has a movement; the commit of a pair's *)
(* first movement adds the row with the signed quantity, and the commit of *)
(* any later one changes that row's quantity by the signed quantity and    *)
(* adds or moves no row -- also when both clients send a pair's first      *)
(* movement at once.                                                       *)
C17_LazySingleLevelRow ==
  /\ [](\A i, j \in DOMAIN stock_levels :
          SamePair(stock_levels[i], stock_levels[j]) => i = j)
  /\ [](\A pr \in Pairs : HasLevel(pr[1], pr[2]) <=> HasMovements(pr[1], pr[2]))
  /\ [][\A p \in Procs :
          (pc[p] = "commit_movement" /\ Stepped(p)) =>
            LET pid == req[p].product_id
                sid == req[p].store_id
            IN  /\ Quantity(pid, sid)' = Quantity(pid, sid) + Contribution(req[p])
                /\ Len(stock_levels') =
                     Len(stock_levels) + (IF HasLevel(pid, sid) THEN 0 ELSE 1)
                /\ \A i \in DOMAIN stock_levels :
                     SamePair(stock_levels'[i], stock_levels[i])]_vars

(* both clients have sent the first movement of the same pair: one is      *)
(* about to commit, the other waits to insert, and the pair has no row yet *)
C17_Witness ==
  /\ pc[1] = "commit_movement"
  /\ pc[2] = "insert_movement"
  /\ SamePair(req[1], req[2])
  /\ ~HasLevel(req[1].product_id, req[1].store_id)

(* C18: two create_product requests with the same new SKU that both pass   *)
(* the lookup: one row is created, and the request whose INSERT comes      *)
(* second (the SKU is committed by then, the write lock is free) fails     *)
(* with DuplicateSKU and adds no row.                                      *)
C18_TypedDuplicateSku ==
  [][\A p \in Procs :
       ( /\ pc[p] = "insert_product" /\ Stepped(p)
         /\ req[p].op = "create_product"
         /\ lock = 0 /\ SkuExists(req[p].sku) )
       => /\ outcome'[p] = "DuplicateSKU"
          /\ UNCHANGED tables]_vars

(* the statements of a movement request, from the product lookup of the    *)
(* adapter to the answer                                                   *)
MovementSteps ==
  {"get_product", "get_stock_level", "record_stock_movement", "insert_movement",
   "upsert_stock_level", "commit_movement", "find_movement", "echo_stock"}

(* C19: no step of a movement request for pair (p, s), whether the request *)
(* succeeds or fails, changes the products or stores table, a movement     *)
(* already recorded, or the stock level of another pair; any movement it   *)
(* adds is of its own pair.                                                *)
C19_RecordMovementFrame ==
  [][\A p \in Procs :
       (pc[p] \in MovementSteps /\ req[p].op \in MovementOps /\ Stepped(p)) =>
         /\ UNCHANGED <<products, stores>>
         /\ Len(stock_movements') >= Len(stock_movements)
         /\ SubSeq(stock_movements', 1, Len(stock_movements)) = stock_movements
         /\ \A i \in (Len(stock_movements) + 1)..Len(stock_movements') :
              SamePair(stock_movements'[i], req[p])
         /\ \A pr \in Pairs :
              pr # <<req[p].product_id, req[p].store_id>> =>
                /\ Quantity(pr[1], pr[2])' = Quantity(pr[1], pr[2])
                /\ HasLevel(pr[1], pr[2])' <=> HasLevel(pr[1], pr[2])]_vars

(* a movement has been recorded for one product while the other product    *)
(* has stock and movements of its own                                      *)
C19_Witness ==
  \E p \in Procs :
    /\ pc[p] = "done" /\ req[p].op \in MovementOps /\ outcome[p] = "ok"
    /\ HasLevel(req[p].product_id, req[p].store_id)
    /\ \E j \in DOMAIN stock_levels :
         /\ stock_levels[j].product_id # req[p].product_id
         /\ stock_levels[j].quantity # 0

(* C20: in the listing of all movements (newest created_at first), of two  *)
(* movements of the same pair the one with the larger id, applied to the   *)
(* stock level later, never comes after the other.                         *)
C20_NewestFirstIsApplicationOrder ==
  LET listing == get_stock_movements(<<>>, <<>>, <<>>)
  IN  \A i, j \in DOMAIN listing :
        (i < j /\ SamePair(listing[i], listing[j])) => listing[i].id > listing[j].id

(* C21: no step deletes a product or changes its id, sku, name or          *)
(* description (each step leaves the existing rows as they are and at most *)
(* appends new ones), and every product's updated_at equals its            *)
(* created_at.                                                             *)
C21_ProductsImmutable ==
  /\ [](\A i \in DOMAIN products : products[i].updated_at = products[i].created_at)
  /\ [][/\ Len(products') >= Len(products)
        /\ SubSeq(products', 1, Len(products)) = products]_vars

(* both products exist, a movement was recorded after a product was        *)
(* created, and a further creation with a taken SKU has just been refused  *)
C21_Witness ==
  /\ Len(products) = MaxProducts
  /\ \E i \in DOMAIN products, j \in DOMAIN stock_movements :
       /\ stock_movements[j].product_id = products[i].id
       /\ stock_movements[j].created_at > products[i].created_at
  /\ \E p \in Procs :
       /\ pc[p] = "done" /\ req[p].op \in ProductOps
       /\ outcome[p] # "ok" /\ SkuExists(req[p].sku)

====
